---- MODULE Spec2Model ----
(***************************************************************************)
(* Ashlag Yomi: the quote repository (fair rotation over a categorised     *)
(* corpus with a persisted sent-history ledger) and its callers.           *)
(*                                                                         *)
(* Quote ids are strings in the program; here they are small integers, and *)
(* the same integer may occur in several categories (ids are unique only   *)
(* within a category).  A calendar date is the day ordinal d; its JSON     *)
(* form in the history file is IsoFormat(d).                               *)
(***************************************************************************)
EXTENDS Integers, Sequences, FiniteSets, Bags, TLC

(* ------------------------------ bounds -------------------------------- *)
MaxItems  == 3       \* rotation: most quotes in one category
MaxTotal  == 3       \* rotation: most quotes in the whole corpus
MaxRun    == 4       \* rotation: most pick+record cycles of a run
MaxStored == 1       \* ledger: most quotes in the whole corpus
MaxDate   == 2       \* ledger: calendar dates 1..MaxDate
MaxHist   == 2       \* ledger: most records in memory
MaxFail   == 1       \* ledger: most writes of the history file that fail
MaxSent   == 2       \* broadcaster: most messages sent to the channel

(* --------------------------- models.py -------------------------------- *)
\* class QuoteCategory(str, Enum): members in declaration order
QuoteCategory ==
    << "ARIZAL", "BAAL_SHEM_TOV", "POLISH_CHASSIDUT",
       "BAAL_HASULAM", "RABASH", "CHASDEI_ASHLAG" >>

Categories == { QuoteCategory[i] : i \in 1..Len(QuoteCategory) }

\* the .value of each member, which is what model_dump(mode="json") writes
CategoryValue(c) ==
    CASE c = "ARIZAL"           -> "arizal"
      [] c = "BAAL_SHEM_TOV"    -> "baal_shem_tov"
      [] c = "POLISH_CHASSIDUT" -> "polish_chassidut"
      [] c = "BAAL_HASULAM"     -> "baal_hasulam"
      [] c = "RABASH"           -> "rabash"
      [] c = "CHASDEI_ASHLAG"   -> "chasdei_ashlag"

CategoryValues == { CategoryValue(c) : c \in Categories }

\* QuoteCategory(value): the member with that value
CategoryFromValue(v) == CHOOSE c \in Categories : CategoryValue(c) = v

Dates == 1..MaxDate

\* date.isoformat() as pydantic dumps it, and its parse
IsoFormat(d) == << "2024-01", d >>
IsIsoDate(s) == /\ Len(s) = 2
                /\ s[1] = "2024-01"
                /\ s[2] \in 1..31
FromIsoFormat(s) == s[2]

\* a Quote, reduced to the fields the repository reads
Quote(i, c) == [id |-> i, category |-> c]

\* Python None where a Quote is expected
NoQuote == [id |-> 0, category |-> "None"]

\* SentRecord.from_quote
from_quote(quote, sent_date) ==
    [quote_id |-> quote.id, sent_date |-> sent_date, category |-> quote.category]

\* SentRecord.model_dump(mode="json")
model_dump(r) ==
    [quote_id |-> r.quote_id,
     sent_date |-> IsoFormat(r.sent_date),
     category |-> CategoryValue(r.category)]

\* SentRecord.model_validate succeeds on this JSON object
IsValidJson(j) == /\ j.category \in CategoryValues
                  /\ IsIsoDate(j.sent_date)

\* SentRecord.model_validate
model_validate(j) ==
    [quote_id |-> j.quote_id,
     sent_date |-> FromIsoFormat(j.sent_date),
     category |-> CategoryFromValue(j.category)]

(* ----------------------- sequence helpers ----------------------------- *)
RECURSIVE SumSeq(_)
SumSeq(s) == IF s = << >> THEN 0 ELSE Head(s) + SumSeq(Tail(s))

RECURSIVE FilterSeq(_, _)
\* [q for q in s if q.id not in ids]
FilterSeq(s, ids) ==
    IF s = << >> THEN << >>
    ELSE IF Head(s).id \in ids
         THEN FilterSeq(Tail(s), ids)
         ELSE << Head(s) >> \o FilterSeq(Tail(s), ids)

Range(s) == { s[i] : i \in 1..Len(s) }


(* --------------------------- the state -------------------------------- *)
VARIABLES
    quotes_cache,    \* QuoteRepository._quotes_cache: category -> list of Quote
    history_cache,   \* QuoteRepository._history_cache: None or list of SentRecord
    history_file,    \* what data/sent_history.json holds
    last,            \* the call that just returned: arguments and outcome
    recorded,        \* history variable: <<id, category, date>> of the
                     \*   mark_as_sent calls that returned since the last clear
    failures,        \* history variable: the writes that have failed so far
    pending,         \* caller of SpecCycle: the quote picked and not yet recorded
    runs,            \* caller of SpecCycle: per category, the ids picked so far
    channel,         \* the bag of messages the Telegram channel has received
    rng_table,       \* what the Mersenne Twister has revealed so far:
                     \*   <<seed, lengths drawn from, n>> -> index choice() took
    global_random,   \* the state of the module-level generator `random`
    daily_seen,      \* history variable: the first result of each date-seeded
                     \*   call since the corpus was loaded
    program,         \* the process that runs: the bot of ashlagyomibot/ or
                     \*   the bot of src/src/, each with its own `random`
    rate_limits,     \* rate_limit._rate_limits: user id -> list of timestamps
    clock,           \* what datetime.now() returns
    accepted,        \* history variable: per user, the times of the calls of
                     \*   is_rate_limited that returned False
    requests,        \* history variable: the calls of is_rate_limited so far
    jobs             \* the scheduled runs of broadcast_daily_quote in
                     \*   progress: per run, its position, its date, the
                     \*   _history_cache of its QuoteRepository and its quote

vars == << quotes_cache, history_cache, history_file, last,
           recorded, failures, pending, runs, channel,
           rng_table, global_random, daily_seen, program,
           rate_limits, clock, accepted, requests, jobs >>

\* the variables of the date-seeded pickers
seeded == << rng_table, global_random, daily_seen, program >>

\* the variables of the rate limiter
limiter == << rate_limits, clock, accepted, requests >>

\* the users that send commands (tests/unit/test_main.py, lines 92-102)
Users == { 111, 222 }

\* no scheduled run is in progress
NoJobs == << >>

\* the rate limiter of a process that has served no command
LimiterIdle ==
    /\ rate_limits = << >>
    /\ clock = 0
    /\ accepted = [u \in Users |-> << >>]
    /\ requests = 0

\* a generator: the seed it was given and the lengths choice() has drawn
\* from since; `random` starts seeded from the operating system
Seeded(seed) == [seed |-> seed, drawn |-> << >>]
OsSeeded == Seeded("os")

\* _history_cache is None
NotLoaded == [loaded |-> FALSE, records |-> << >>]
Loaded(h) == [loaded |-> TRUE, records |-> h]

\* the history file does not exist / holds the JSON {"sent": sent} /
\* holds a truncated write that json.load rejects
FileAbsent     == [state |-> "absent",  sent |-> << >>]
FileJson(sent) == [state |-> "json",    sent |-> sent]
FileCorrupt    == [state |-> "corrupt", sent |-> << >>]

\* outcomes of writing the history file
IoOutcomes == { "ok", "open_fails", "dump_fails" }

(* -------------------------- repository.py ----------------------------- *)
\* _load_history, lines 132-146: what reading the file yields
LoadFile(f) ==
    IF f.state = "json" /\ \A i \in 1..Len(f.sent) : IsValidJson(f.sent[i])
    THEN [i \in 1..Len(f.sent) |-> model_validate(f.sent[i])]
    ELSE << >>

\* _load_history: the list it returns (and caches)
_load_history(cache, f) ==
    IF cache.loaded THEN cache.records ELSE LoadFile(f)

\* _save_history that keeps the records in memory and writes nothing
_save_history_Deferred(cache, f, io) == f

\* _save_history: the file after the call
\*   open(..., "w") raises: the file is as before
\*   json.dump raises after open truncated the file: a partial write
_save_history(cache, f, io) ==
    IF ~cache.loaded THEN f
    ELSE CASE io = "ok"         -> FileJson([i \in 1..Len(cache.records) |->
                                                model_dump(cache.records[i])])
           [] io = "open_fails" -> f
           [] io = "dump_fails" -> FileCorrupt

\* _save_history catching the error of the write itself
SaveRaises_Swallowed(cache, io) == "none"

\* the exception _save_history lets escape
SaveRaises(cache, io) == IF cache.loaded /\ io # "ok" THEN "OSError" ELSE "none"

\* get_all_by_category
get_all_by_category(qc, category) == qc[category]

\* an exclude_ids argument: None, or a set of ids
ExNone      == [none |-> TRUE,  ids |-> {}]
ExSet(ids)  == [none |-> FALSE, ids |-> ids]
\* `if exclude_ids:` is false for None and for the empty set
Truthy(ex)  == ~ex.none /\ ex.ids # {}

\* AvailableQuotes without the reset: an exhausted category offers nothing
AvailableQuotes_NoReset(all_quotes, ex) ==
    IF Truthy(ex) THEN FilterSeq(all_quotes, ex.ids) ELSE all_quotes

\* AvailableQuotes with the filter on exclude_ids left out
AvailableQuotes_IgnoreExclude(all_quotes, ex) == all_quotes

\* get_random_by_category, lines 196-204: the list random.choice draws from
AvailableQuotes(all_quotes, ex) ==
    LET available == IF Truthy(ex) THEN FilterSeq(all_quotes, ex.ids)
                                   ELSE all_quotes
    IN  IF available = << >> THEN all_quotes ELSE available

\* get_random_by_category: every value the call can return
get_random_by_category(qc, category, ex) ==
    LET all_quotes == get_all_by_category(qc, category)
    IN  IF all_quotes = << >>
        THEN { NoQuote }
        ELSE Range(AvailableQuotes(all_quotes, ex))

\* get_sent_ids_by_category without the test on the category
get_sent_ids_by_category_AnyCategory(history, category) ==
    { history[i].quote_id : i \in 1..Len(history) }

\* get_sent_ids_by_category
get_sent_ids_by_category(history, category) ==
    { history[i].quote_id :
        i \in { k \in 1..Len(history) : history[k].category = category } }

\* was_broadcast_today that never finds a record
was_broadcast_today_Never(history, target_date) == FALSE

\* was_broadcast_today that looks for any record at all
was_broadcast_today_AnyDate(history, target_date) == history # << >>

\* was_broadcast_today
was_broadcast_today(history, target_date) ==
    \E i \in 1..Len(history) : history[i].sent_date = target_date

RECURSIVE BundleFrom(_, _, _)
\* get_daily_bundle, lines 249-258: every list `quotes` the loop over
\* QuoteCategory members i..last can build
BundleFrom(qc, history, i) ==
    IF i > Len(QuoteCategory) THEN { << >> }
    ELSE LET category == QuoteCategory[i]
             sent_ids == get_sent_ids_by_category(history, category)
             picks    == get_random_by_category(qc, category, ExSet(sent_ids))
         IN  { (IF quote = NoQuote THEN << >> ELSE << quote >>) \o rest :
                 quote \in picks, rest \in BundleFrom(qc, history, i + 1) }

\* DailyBundle.quotes: Field(min_length=1, max_length=6)
DailyBundleValid(quotes) == Len(quotes) >= 1 /\ Len(quotes) <= 6

\* mark_as_sent putting the new record first
mark_as_sent_Prepend(history, quote, sent_date) ==
    << from_quote(quote, sent_date) >> \o history

\* mark_as_sent with the append left out
mark_as_sent_NoAppend(history, quote, sent_date) == history

\* mark_as_sent, lines 236-239: the list after the append
mark_as_sent(history, quote, sent_date) ==
    Append(history, from_quote(quote, sent_date))

\* clear_history, line 269: the list after the call
clear_history(history) == << >>

(* ------------------------- initial states ----------------------------- *)
\* a corpus: each category holds the quotes 1..n of that category, in load
\* order; _load_quotes files every quote under its own category
CorpusSizes(maxItems, maxTotal) ==
    { sz \in [Categories -> 0..maxItems] :
        SumSeq([i \in 1..Len(QuoteCategory) |-> sz[QuoteCategory[i]]]) <= maxTotal }

MakeCorpus(sz) ==
    [c \in Categories |-> [i \in 1..sz[c] |-> Quote(i, c)]]

AllQuotes == UNION { Range(quotes_cache[c]) : c \in Categories }

\* ids a caller may pass in exclude_ids; MaxItems + 1 is in no corpus
IdUniverse == 1..(MaxItems + 1)
ExcludeArgs == { ExNone } \cup { ExSet(ids) : ids \in SUBSET IdUniverse }

NoCall ==
    [op |-> "init", category |-> "None", date |-> 0, exclude |-> ExNone,
     quote |-> NoQuote, quotes |-> << >>, flag |-> FALSE, ids |-> {},
     exc |-> "none", io |-> "ok", sent |-> FALSE, has_channel |-> TRUE,
     dry_run |-> FALSE]

Init ==
    /\ \E sz \in CorpusSizes(MaxStored, MaxStored) : quotes_cache = MakeCorpus(sz)
    /\ history_cache = NotLoaded
    /\ history_file = FileAbsent
    /\ last = NoCall
    /\ recorded = {}
    /\ failures = 0
    /\ pending = NoQuote
    /\ runs = [c \in Categories |-> << >>]
    /\ channel = EmptyBag
    /\ rng_table = << >>
    /\ global_random = OsSeeded
    /\ daily_seen = << >>
    /\ program = "ashlagyomibot"
    /\ LimiterIdle
    /\ jobs = NoJobs

(* ----------------------- repository operations ------------------------ *)
caller == << pending, runs, channel >>
ledger == << history_cache, history_file, recorded, failures >>

\* QuoteRepository.get_random_by_category(category, exclude_ids=ex)
GetRandomByCategory(category, ex) ==
    /\ \E quote \in get_random_by_category(quotes_cache, category, ex) :
          last' = [NoCall EXCEPT !.op = "get_random_by_category",
                                 !.category = category,
                                 !.exclude = ex,
                                 !.quote = quote]
    /\ UNCHANGED << quotes_cache, seeded, limiter, jobs, ledger, caller >>

\* QuoteRepository.get_sent_ids_by_category(category)
GetSentIdsByCategory(category) ==
    LET history == _load_history(history_cache, history_file)
    IN  /\ history_cache' = Loaded(history)
        /\ last' = [NoCall EXCEPT !.op = "get_sent_ids_by_category",
                                  !.category = category,
                                  !.ids = get_sent_ids_by_category(history, category)]
        /\ UNCHANGED << quotes_cache, seeded, limiter, jobs, history_file, recorded, failures, caller >>

\* QuoteRepository.mark_as_sent(quote, sent_date); io is what the write does
MarkAsSent(quote, sent_date, io) ==
    LET history == _load_history(history_cache, history_file)
        cache   == Loaded(mark_as_sent(history, quote, sent_date))
    IN  /\ Len(history) < MaxHist
        /\ io # "ok" => failures < MaxFail
        /\ history_cache' = cache
        /\ history_file' = _save_history(cache, history_file, io)
        /\ last' = [NoCall EXCEPT !.op = "mark_as_sent",
                                  !.category = quote.category,
                                  !.quote = quote,
                                  !.date = sent_date,
                                  !.io = io,
                                  !.exc = SaveRaises(cache, io)]
        /\ recorded' = IF io = "ok"
                       THEN recorded \cup { << quote.id, quote.category, sent_date >> }
                       ELSE recorded
        /\ failures' = IF io = "ok" THEN failures ELSE failures + 1
        /\ UNCHANGED << quotes_cache, seeded, limiter, jobs, caller >>

\* QuoteRepository.get_daily_bundle(target_date)
GetDailyBundle(target_date) ==
    LET history == _load_history(history_cache, history_file)
    IN  /\ history_cache' = Loaded(history)
        /\ \E quotes \in BundleFrom(quotes_cache, history, 1) :
              last' = IF DailyBundleValid(quotes)
                      THEN [NoCall EXCEPT !.op = "get_daily_bundle",
                                          !.date = target_date,
                                          !.quotes = quotes]
                      ELSE [NoCall EXCEPT !.op = "get_daily_bundle",
                                          !.date = target_date,
                                          !.exc = "ValidationError"]
        /\ UNCHANGED << quotes_cache, seeded, limiter, jobs, history_file, recorded, failures, caller >>

\* QuoteRepository.was_broadcast_today(target_date)
WasBroadcastToday(target_date) ==
    LET history == _load_history(history_cache, history_file)
    IN  /\ history_cache' = Loaded(history)
        /\ last' = [NoCall EXCEPT !.op = "was_broadcast_today",
                                  !.date = target_date,
                                  !.flag = was_broadcast_today(history, target_date)]
        /\ UNCHANGED << quotes_cache, seeded, limiter, jobs, history_file, recorded, failures, caller >>

\* QuoteRepository.clear_history()
ClearHistory(io) ==
    LET cache == Loaded(clear_history(history_cache.records))
    IN  /\ io # "ok" => failures < MaxFail
        /\ history_cache' = cache
        /\ history_file' = _save_history(cache, history_file, io)
        /\ last' = [NoCall EXCEPT !.op = "clear_history",
                                  !.io = io,
                                  !.exc = SaveRaises(cache, io)]
        /\ recorded' = {}
        /\ failures' = IF io = "ok" THEN failures ELSE failures + 1
        /\ UNCHANGED << quotes_cache, seeded, limiter, jobs, caller >>

\* QuoteRepository(quotes_dir, history_file): a new instance on the same
\* files, as after a process restart; __init__ sets _history_cache = None
NewRepository ==
    /\ history_cache.loaded
    /\ history_cache' = NotLoaded
    /\ last' = [NoCall EXCEPT !.op = "__init__"]
    /\ UNCHANGED << quotes_cache, seeded, limiter, jobs, history_file, recorded, failures, caller >>

\* the exclusion sets the callers of the repository pass: none, or the
\* ids the ledger holds for the category
LedgerExcludeArgs(category) ==
    { ExNone,
      ExSet(get_sent_ids_by_category(
                _load_history(history_cache, history_file), category)) }

Next ==
    \/ \E c \in Categories : \E ex \in LedgerExcludeArgs(c) :
          GetRandomByCategory(c, ex)
    \/ \E c \in Categories : GetSentIdsByCategory(c)
    \/ \E q \in AllQuotes, d \in Dates : MarkAsSent(q, d, "ok")
    \/ \E d \in Dates : GetDailyBundle(d)
    \/ \E d \in Dates : WasBroadcastToday(d)
    \/ ClearHistory("ok")
    \/ NewRepository

Spec == Init /\ [][Next]_vars

(* ------------- the ledger on storage that can fail -------------------- *)
NextStore ==
    \/ \E q \in AllQuotes, d \in Dates, io \in IoOutcomes : MarkAsSent(q, d, io)
    \/ \E io \in IoOutcomes : ClearHistory(io)
    \/ NewRepository

SpecStore == Init /\ [][NextStore]_vars

(* ------------- every operation, one record a day ---------------------- *)
\* the operations of Next, mark_as_sent called as the daily job calls it:
\* once a day, so the date of a record is its position in the ledger
NextFrame ==
    \/ \E c \in Categories : \E ex \in LedgerExcludeArgs(c) :
          GetRandomByCategory(c, ex)
    \/ \E c \in Categories : GetSentIdsByCategory(c)
    \/ \E q \in AllQuotes :
          MarkAsSent(q, Len(_load_history(history_cache, history_file)) + 1, "ok")
    \/ \E d \in Dates : GetDailyBundle(d)
    \/ \E d \in Dates : WasBroadcastToday(d)
    \/ ClearHistory("ok")
    \/ NewRepository

SpecFrame == Init /\ [][NextFrame]_vars

(* ----------------------- bot/broadcaster.py ---------------------------- *)
\* weighted_categories, lines 62-71: the members random.choice can return
weighted_categories ==
    << "BAAL_HASULAM", "BAAL_HASULAM", "RABASH", "RABASH",
       "ARIZAL", "BAAL_SHEM_TOV", "POLISH_CHASSIDUT", "CHASDEI_ASHLAG" >>

\* the value broadcast_daily_quote returns once bot.send_message has
\* returned: mark_as_sent is inside the try, so an exception that escapes it
\* reaches `except Exception` (line 123) and the function returns False
ReturnAfterSend(mark_exc) == mark_exc = "none"

\* broadcast_daily_quote(target_date, dry_run=...).  Each input is drawn
\* where the code reads it:
\*   has_channel: settings.telegram_channel_id is set
\*   dry_run:     dry_run or settings.dry_run
\*   send_ok:     bot.send_message returns (it raises otherwise)
\*   io:          what the write of the history file does
\* random.seed(day_of_year) makes the two random.choice calls repeat for a
\* date; which values they return is left open here.
BroadcastDailyQuote(target_date) ==
    LET history  == LoadFile(history_file)    \* a fresh QuoteRepository()
        call     == [NoCall EXCEPT !.op = "broadcast_daily_quote",
                                   !.date = target_date]
        quiet    == UNCHANGED << history_file, recorded, failures, channel >>
    IN  /\ UNCHANGED << quotes_cache, seeded, limiter, jobs, history_cache, pending, runs >>
        /\ \E has_channel \in BOOLEAN :
           IF ~has_channel
           THEN /\ last' = [call EXCEPT !.flag = FALSE, !.has_channel = FALSE]
                /\ quiet
           ELSE IF was_broadcast_today(history, target_date)
           THEN /\ last' = [call EXCEPT !.flag = TRUE]
                /\ quiet
           ELSE \E category \in Range(weighted_categories) :
                LET sent_ids == get_sent_ids_by_category(history, category)
                IN  \E quote \in get_random_by_category(quotes_cache, category,
                                                        ExSet(sent_ids)) :
                    LET picked == [call EXCEPT !.quote = quote]
                        cache  == Loaded(mark_as_sent(history, quote, target_date))
                    IN  IF quote = NoQuote
                        THEN /\ last' = [picked EXCEPT !.flag = FALSE]
                             /\ quiet
                        ELSE \E dry_run \in BOOLEAN :
                             IF dry_run
                             THEN /\ last' = [picked EXCEPT !.flag = TRUE,
                                                            !.dry_run = TRUE]
                                  /\ quiet
                             ELSE \E send_ok \in BOOLEAN :
                             IF ~send_ok
                             THEN /\ last' = [picked EXCEPT !.flag = FALSE,
                                                            !.exc = "TelegramError"]
                                  /\ quiet
                             ELSE \E io \in IoOutcomes :
                                  LET mark_exc == SaveRaises(cache, io)
                                  IN  /\ io # "ok" => failures < MaxFail
                                      /\ BagCardinality(channel) < MaxSent
                                      /\ channel' = channel (+) SetToBag(
                                             {[quote |-> quote, date |-> target_date]})
                                      /\ history_file' =
                                             _save_history(cache, history_file, io)
                                      /\ recorded' =
                                           IF io = "ok"
                                           THEN recorded \cup
                                                { << quote.id, quote.category,
                                                     target_date >> }
                                           ELSE recorded
                                      /\ failures' = IF io = "ok" THEN failures
                                                                  ELSE failures + 1
                                      /\ last' = [picked EXCEPT
                                                    !.sent = TRUE,
                                                    !.io = io,
                                                    !.exc = mark_exc,
                                                    !.flag = ReturnAfterSend(mark_exc)]

NextBroadcast == \E d \in Dates : BroadcastDailyQuote(d)

SpecBroadcast == Init /\ [][NextBroadcast]_vars

(* ------------- a caller running pick + record cycles ------------------ *)
\* The caller's loop, as in broadcast_daily_quote lines 79-80 and 111:
\*   sent_ids = repository.get_sent_ids_by_category(category)
\*   quote = repository.get_random_by_category(category, exclude_ids=sent_ids)
\*   ... repository.mark_as_sent(quote, target_date)
InitCycle ==
    /\ \E sz \in CorpusSizes(MaxItems, MaxTotal) : quotes_cache = MakeCorpus(sz)
    /\ history_cache = NotLoaded
    /\ history_file = FileAbsent
    /\ last = NoCall
    /\ recorded = {}
    /\ failures = 0
    /\ pending = NoQuote
    /\ runs = [c \in Categories |-> << >>]
    /\ channel = EmptyBag
    /\ rng_table = << >>
    /\ global_random = OsSeeded
    /\ daily_seen = << >>
    /\ program = "ashlagyomibot"
    /\ LimiterIdle
    /\ jobs = NoJobs

\* the pick of one cycle: exclusion set recomputed from the ledger
CyclePick(category) ==
    LET history  == _load_history(history_cache, history_file)
        sent_ids == get_sent_ids_by_category(history, category)
    IN  /\ pending = NoQuote
        /\ Len(history) < MaxRun
        /\ quotes_cache[category] # << >>
        /\ history_cache' = Loaded(history)
        /\ \E quote \in get_random_by_category(quotes_cache, category, ExSet(sent_ids)) :
              /\ pending' = quote
              /\ runs' = [runs EXCEPT ![category] = Append(@, quote.id)]
              /\ last' = [NoCall EXCEPT !.op = "get_random_by_category",
                                        !.category = category,
                                        !.exclude = ExSet(sent_ids),
                                        !.quote = quote]
        /\ UNCHANGED << quotes_cache, seeded, limiter, jobs, history_file, recorded, failures, channel >>

\* the record of one cycle: mark_as_sent of the quote just picked; the
\* caller runs one cycle a day, so the date is the number of the cycle
CycleRecord ==
    LET history   == _load_history(history_cache, history_file)
        sent_date == Len(history) + 1
        cache     == Loaded(mark_as_sent(history, pending, sent_date))
    IN  /\ pending # NoQuote
        /\ history_cache' = cache
        /\ history_file' = _save_history(cache, history_file, "ok")
        /\ last' = [NoCall EXCEPT !.op = "mark_as_sent",
                                  !.category = pending.category,
                                  !.quote = pending,
                                  !.date = sent_date]
        /\ recorded' = recorded \cup { << pending.id, pending.category, sent_date >> }
        /\ pending' = NoQuote
        /\ UNCHANGED << quotes_cache, seeded, limiter, jobs, failures, runs, channel >>

NextCycle ==
    \/ \E c \in Categories : CyclePick(c)
    \/ CycleRecord

SpecCycle == InitCycle /\ [][NextCycle]_vars

(* ---------------- get_random_by_category on its own ------------------- *)
NextPick ==
    \E c \in Categories, ex \in ExcludeArgs : GetRandomByCategory(c, ex)

SpecPick == InitCycle /\ [][NextPick]_vars

(* ======================= properties of the rotation =================== *)
Min(a, b) == IF a <= b THEN a ELSE b

\* the number N of items of a category, and their ids
NItems(c) == Len(quotes_cache[c])
ItemIds(c) == { quotes_cache[c][i].id : i \in 1..NItems(c) }

\* C1 (exhaustion-then-reset): from an empty ledger, the first N picks of a
\* category with N items, each followed by mark_as_sent, are pairwise
\* distinct, and once N picks are made they are every item of the category
\* exactly once, whatever random.choice returned.
C1_ExhaustionThenReset ==
    \A c \in Categories :
        LET n == NItems(c)
            k == Min(Len(runs[c]), n)
        IN  /\ \A i, j \in 1..k : i # j => runs[c][i] # runs[c][j]
            /\ Len(runs[c]) >= n => { runs[c][i] : i \in 1..n } = ItemIds(c)

\* a category of three items whose first full cycle has been picked and recorded
C1_Witness ==
    \E c \in Categories :
        /\ NItems(c) = 3
        /\ Len(runs[c]) = 3
        /\ pending = NoQuote
        /\ Len(history_cache.records) = 3

\* C2 as claimed (no premature repeat in ANY window of the run): for N >= 2,
\* two picks of the run that lie in one window of N-1 consecutive cycles,
\* i.e. at most N-2 cycles apart, never return the same id.
C2_NoRepeatInAnyWindow ==
    \A c \in Categories :
        LET n == NItems(c)
        IN  n >= 2 =>
              \A i, j \in 1..Len(runs[c]) :
                  (i < j /\ j - i <= n - 2) => runs[c][i] # runs[c][j]

\* C2 as amended: the same, for the windows of N-1 consecutive cycles that
\* lie within the first N cycles of the run.
C2_NoRepeatInFirstCycle ==
    \A c \in Categories :
        LET n == NItems(c)
        IN  n >= 2 =>
              \A i, j \in 1..Min(Len(runs[c]), n) :
                  (i < j /\ j - i <= n - 2) => runs[c][i] # runs[c][j]

\* a run over a category of three items that has gone past its first cycle
C2_Witness ==
    \E c \in Categories :
        /\ NItems(c) = 3
        /\ Len(runs[c]) = 4
        /\ pending = NoQuote

\* C3 (fair rotation in every cycle): after the first N picks of a category
\* are recorded, picks N+1..2N are again pairwise distinct.
C3_SecondCycleDistinct ==
    \A c \in Categories :
        LET n == NItems(c)
        IN  \A i, j \in (n + 1)..Min(Len(runs[c]), 2 * n) :
                i # j => runs[c][i] # runs[c][j]

(* ================= properties of get_random_by_category ================= *)
\* C4 (pick contract): for every corpus, category and exclusion set (None,
\* empty, ids outside the corpus), get_random_by_category returns None iff
\* the category is empty; otherwise it can return exactly the quotes of the
\* category whose id is not excluded when there is one, and exactly the
\* quotes of the category (reset) when all of them are excluded.
C4_PickContract ==
    /\ \A c \in Categories, ex \in ExcludeArgs :
          LET all_quotes == Range(quotes_cache[c])
              picks      == get_random_by_category(quotes_cache, c, ex)
              free       == { q \in all_quotes : ex.none \/ q.id \notin ex.ids }
          IN  /\ (NoQuote \in picks) <=> (all_quotes = {})
              /\ all_quotes = {} => picks = { NoQuote }
              /\ all_quotes # {} =>
                    /\ \A q \in picks : q.category = c
                    /\ picks = IF free # {} THEN free ELSE all_quotes
    /\ last.op = "get_random_by_category" =>
          LET all_quotes == Range(quotes_cache[last.category])
              free       == { q \in all_quotes :
                                last.exclude.none \/ q.id \notin last.exclude.ids }
          IN  IF all_quotes = {} THEN last.quote = NoQuote
              ELSE IF free # {} THEN last.quote \in free
              ELSE last.quote \in all_quotes

\* a pick from a category of two or more quotes, all of them excluded
\* together with an id that is in no corpus: the reset returned a quote
C4_Witness ==
    /\ last.op = "get_random_by_category"
    /\ NItems(last.category) >= 2
    /\ ItemIds(last.category) \subseteq last.exclude.ids
    /\ (MaxItems + 1) \in last.exclude.ids
    /\ last.quote # NoQuote

(* ======================= properties of the ledger ====================== *)
\* the ledger as the repository sees it
Ledger == _load_history(history_cache, history_file)

QueryOps == { "get_random_by_category", "get_daily_bundle",
              "get_sent_ids_by_category", "was_broadcast_today" }

\* C5 (frame): a step changes the ledger only if it is mark_as_sent or
\* clear_history.  mark_as_sent appends exactly the record of its quote and
\* date at the end and keeps the earlier records, in memory and in the file;
\* clear_history empties both; every query, a pick that resets included,
\* leaves the ledger and the file as they were.
C5_LedgerFrame ==
    [][ /\ last'.op \in QueryOps =>
              /\ Ledger' = Ledger
              /\ history_file' = history_file
        /\ last'.op = "mark_as_sent" =>
              /\ Ledger' = Append(Ledger, from_quote(last'.quote, last'.date))
              /\ LoadFile(history_file') = Ledger'
        /\ last'.op = "clear_history" =>
              /\ Ledger' = << >>
              /\ LoadFile(history_file') = << >>
        /\ (Ledger' # Ledger \/ history_file' # history_file) =>
              last'.op \in { "mark_as_sent", "clear_history" }
      ]_vars

\* a pick that reset (its quote is one of the excluded ids) while the ledger
\* holds two records
C5_Witness ==
    /\ last.op = "get_random_by_category"
    /\ last.quote # NoQuote
    /\ last.quote.id \in last.exclude.ids
    /\ Len(Ledger) = 2
    /\ Len(history_file.sent) = 2

\* the ids recorded under a category since the last clear
RecordedIds(c) == { t[1] : t \in { r \in recorded : r[2] = c } }

\* C6 (delivered ids): get_sent_ids_by_category(c) is exactly the set of ids
\* recorded with category c since the most recent clear_history, whatever
\* the dates; an id recorded under another category is not in it, and it
\* is empty for every category right after clear_history.
C6_SentIdsExact ==
    /\ \A c \in Categories : get_sent_ids_by_category(Ledger, c) = RecordedIds(c)
    /\ last.op = "get_sent_ids_by_category" => last.ids = RecordedIds(last.category)
    /\ last.op = "clear_history" =>
          \A c \in Categories : get_sent_ids_by_category(Ledger, c) = {}

\* the query of a category returned no id while the ledger holds two
\* records of another category
C6_Witness ==
    /\ last.op = "get_sent_ids_by_category"
    /\ last.ids = {}
    /\ Cardinality(recorded) = 2
    /\ \A r \in recorded : r[2] # last.category

\* C7 (delivered on a date): was_broadcast_today(d) is true iff a record
\* with exactly the date d was made since the last clear, of any category;
\* it is false for every date on an empty or cleared ledger.
C7_WasBroadcastExact ==
    /\ \A d \in Dates :
          was_broadcast_today(Ledger, d) <=> (\E r \in recorded : r[3] = d)
    /\ last.op = "was_broadcast_today" =>
          (last.flag <=> (\E r \in recorded : r[3] = last.date))
    /\ Ledger = << >> => \A d \in Dates : ~was_broadcast_today(Ledger, d)

\* the query of a date returned false while the ledger holds a record of
\* another date
C7_Witness ==
    /\ last.op = "was_broadcast_today"
    /\ ~last.flag
    /\ recorded # {}
    /\ \A r \in recorded : r[3] # last.date

\* C8 (record persists): after every mark_as_sent or clear_history that
\* returns normally the history file holds the in-memory ledger, so that a
\* new repository on the same file loads the same records and reports the
\* same delivered ids.
C8_RecordPersists ==
    (last.op \in { "mark_as_sent", "clear_history" } /\ last.exc = "none") =>
        /\ history_file.state = "json"
        /\ LoadFile(history_file) = history_cache.records
        /\ \A c \in Categories :
              get_sent_ids_by_category(_load_history(NotLoaded, history_file), c)
                = get_sent_ids_by_category(history_cache.records, c)

\* a mark_as_sent that returned, after an earlier write had failed, with two
\* records in the ledger
C8_Witness ==
    /\ last.op = "mark_as_sent"
    /\ last.exc = "none"
    /\ failures > 0
    /\ Len(history_cache.records) = 2

\* C9 (write failure is loud): when the write of the history file fails in
\* mark_as_sent the error leaves mark_as_sent and reaches the broadcast that
\* called it, and a broadcast whose message was sent but whose mark_as_sent
\* failed returns False.
C9_WriteFailureIsLoud ==
    (last.op = "broadcast_daily_quote" /\ last.sent /\ last.io # "ok") =>
        /\ last.exc = "OSError"
        /\ last.flag = FALSE

\* a broadcast that sent its message, failed to write the record and
\* returned False
C9_Witness ==
    /\ last.op = "broadcast_daily_quote"
    /\ last.sent
    /\ last.io = "dump_fails"
    /\ last.flag = FALSE
    /\ BagCardinality(channel) >= 1

\* the categories that hold a quote, in declaration order
RECURSIVE NonEmptyFrom(_)
NonEmptyFrom(i) ==
    IF i > Len(QuoteCategory) THEN << >>
    ELSE (IF quotes_cache[QuoteCategory[i]] # << >> THEN << QuoteCategory[i] >>
                                                   ELSE << >>)
         \o NonEmptyFrom(i + 1)

\* C10 (daily bundle): get_daily_bundle returns one quote for each category
\* that holds a quote and none for an empty category, each quote of its
\* category, the categories in declaration order, exhausted categories
\* included.
C10_BundleOnePerCategory ==
    last.op = "get_daily_bundle" =>
        /\ last.exc = "none"
        /\ [i \in 1..Len(last.quotes) |-> last.quotes[i].category] = NonEmptyFrom(1)
        /\ \A i \in 1..Len(last.quotes) :
              last.quotes[i] \in Range(quotes_cache[last.quotes[i].category])

\* C11 (empty categories are no error): get_daily_bundle returns normally
\* for every corpus, the corpus whose categories are all empty included;
\* it never raises.
C11_BundleNeverRaises ==
    last.op = "get_daily_bundle" => last.exc = "none"

(* --------- data/quote_repository.py and src/quote_manager.py ---------- *)
\* quote_repository.py line 22
ACTIVE_CATEGORIES == << "BAAL_HASULAM", "RABASH" >>

\* QuoteManager.QUOTE_SOURCES, quote_manager.py lines 88-96
QUOTE_SOURCES ==
    << "arizal", "baal_shem_tov", "simcha_bunim", "kotzker",
       "baal_hasulam", "rabash", "ashlag_talmidim" >>

\* quote_repository.py get_quotes_by_category: the cache is keyed by the
\* active categories only (lines 77-79), any other category gets []
get_quotes_by_category(qc, category) ==
    IF \E i \in 1..Len(ACTIVE_CATEGORIES) : ACTIVE_CATEGORIES[i] = category
    THEN qc[category] ELSE << >>

\* quote_repository.py get_all_quotes, lines 130-136
get_all_quotes(qc) ==
    get_quotes_by_category(qc, ACTIVE_CATEGORIES[1])
        \o get_quotes_by_category(qc, ACTIVE_CATEGORIES[2])

\* QuoteManager.quotes_cache[source]["quotes"]: the quotes of the file
\* <source>.json of the quotes directory; a source without a file is not in
\* the cache
ManagerQuotes(qc, source) ==
    IF source \in CategoryValues THEN qc[CategoryFromValue(source)] ELSE << >>

RECURSIVE ManagerAllQuotes(_, _)
\* the quotes of the sources QUOTE_SOURCES[i..], in cache order
ManagerAllQuotes(qc, i) ==
    IF i > Len(QUOTE_SOURCES) THEN << >>
    ELSE ManagerQuotes(qc, QUOTE_SOURCES[i]) \o ManagerAllQuotes(qc, i + 1)

\* target_date.toordinal(), and _get_daily_seed() + seed_offset with the md5
\* of the date kept symbolic
OrdinalSeed(target_date) == << "toordinal", target_date, 0 >>
DailySeed(today, seed_offset) == << "md5", today, seed_offset >>

\* random.choice(seq) with len(seq) = n on the generator g: the index taken,
\* what is known of the generator afterwards, and the generator's new state.
\* The index is a function of the seed and of the lengths drawn from before;
\* a generator seeded by the operating system can return any index.
Choice(table, g, n) ==
    LET key  == << g.seed, g.drawn, n >>
        next == [g EXCEPT !.drawn = Append(@, n)]
    IN  IF g = OsSeeded
        THEN { [index |-> i, table |-> table, g |-> g] : i \in 1..n }
        ELSE IF key \in DOMAIN table
        THEN { [index |-> table[key], table |-> table, g |-> next] }
        ELSE { [index |-> i, table |-> (key :> i) @@ table, g |-> next] :
                 i \in 1..n }

\* get_daily_quotes drawing from the module-level generator, never seeded
DailyRng_Global(target_date, global) == global

\* get_daily_quotes, lines 183-184: rng = random.Random(target_date.toordinal())
DailyRng(target_date, global) == Seeded(OrdinalSeed(target_date))

RECURSIVE DailyQuotesFrom(_, _, _, _)
\* get_daily_quotes, lines 186-194: the lists the loop over
\* ACTIVE_CATEGORIES[i..] can build, with what each reveals of the generator
DailyQuotesFrom(qc, table, rng, i) ==
    IF i > Len(ACTIVE_CATEGORIES) THEN { [quotes |-> << >>, table |-> table] }
    ELSE LET category_quotes == get_quotes_by_category(qc, ACTIVE_CATEGORIES[i])
         IN  IF category_quotes = << >>
             THEN DailyQuotesFrom(qc, table, rng, i + 1)
             ELSE UNION {
                    { [quotes |-> << category_quotes[c.index] >> \o r.quotes,
                       table |-> r.table] :
                        r \in DailyQuotesFrom(qc, c.table, c.g, i + 1) } :
                    c \in Choice(table, rng, Len(category_quotes)) }

\* quote_repository.py QuoteRepository.get_daily_quotes(target_date)
get_daily_quotes(qc, table, global, target_date) ==
    DailyQuotesFrom(qc, table, DailyRng(target_date, global), 1)

RECURSIVE ManagerDailyFrom(_, _, _, _, _)
\* QuoteManager.get_daily_quotes, lines 171-178, calling
\* get_quote_for_source(source, seed_offset=i), lines 145-163, which seeds
\* the module-level generator before its choice
ManagerDailyFrom(qc, table, global, today, i) ==
    IF i > Len(QUOTE_SOURCES)
    THEN { [quotes |-> << >>, table |-> table, g |-> global] }
    ELSE LET quotes == ManagerQuotes(qc, QUOTE_SOURCES[i])
         IN  IF quotes = << >>
             THEN ManagerDailyFrom(qc, table, global, today, i + 1)
             ELSE UNION {
                    { [quotes |-> << quotes[c.index] >> \o r.quotes,
                       table |-> r.table, g |-> r.g] :
                        r \in ManagerDailyFrom(qc, c.table, c.g, today, i + 1) } :
                    c \in Choice(table, Seeded(DailySeed(today, i - 1)),
                                 Len(quotes)) }

MaxDraws  == 1       \* seeded mode: most draws from `random` after a seeding
MaxSeeded == 2       \* seeded mode: most quotes of an active category

\* the corpora of the date-seeded pickers: quotes in the active categories
InitSeeded ==
    /\ \E n \in 0..MaxSeeded, m \in 0..MaxSeeded :
          quotes_cache = MakeCorpus([c \in Categories |->
                            IF c = ACTIVE_CATEGORIES[1] THEN n
                            ELSE IF c = ACTIVE_CATEGORIES[2] THEN m ELSE 0])
    /\ history_cache = NotLoaded
    /\ history_file = FileAbsent
    /\ last = NoCall
    /\ recorded = {}
    /\ failures = 0
    /\ pending = NoQuote
    /\ runs = [c \in Categories |-> << >>]
    /\ channel = EmptyBag
    /\ rng_table = << >>
    /\ global_random = OsSeeded
    /\ daily_seen = << >>
    /\ program \in { "ashlagyomibot", "src" }
    /\ LimiterIdle
    /\ jobs = NoJobs

\* quote_repository.py QuoteRepository.get_daily_quotes(target_date)
GetDailyQuotes(target_date) ==
    LET key == << "get_daily_quotes", target_date >>
    IN  \E r \in get_daily_quotes(quotes_cache, rng_table, global_random,
                                  target_date) :
          /\ rng_table' = r.table
          /\ daily_seen' = IF key \in DOMAIN daily_seen THEN daily_seen
                           ELSE (key :> r.quotes) @@ daily_seen
          /\ last' = [NoCall EXCEPT !.op = "get_daily_quotes",
                                    !.date = target_date,
                                    !.quotes = r.quotes,
                                    !.flag = key \in DOMAIN daily_seen]
          /\ program = "ashlagyomibot"
          /\ UNCHANGED << quotes_cache, global_random, program, ledger, caller, limiter, jobs >>

\* quote_manager.py QuoteManager.get_daily_quotes() on the day `today`
ManagerGetDailyQuotes(today) ==
    LET key == << "QuoteManager.get_daily_quotes", today >>
    IN  \E r \in ManagerDailyFrom(quotes_cache, rng_table, global_random,
                                  today, 1) :
          /\ rng_table' = r.table
          /\ global_random' = r.g
          /\ daily_seen' = IF key \in DOMAIN daily_seen THEN daily_seen
                           ELSE (key :> r.quotes) @@ daily_seen
          /\ last' = [NoCall EXCEPT !.op = "QuoteManager.get_daily_quotes",
                                    !.date = today,
                                    !.quotes = r.quotes,
                                    !.flag = key \in DOMAIN daily_seen]
          /\ program = "src"
          /\ UNCHANGED << quotes_cache, program, ledger, caller, limiter, jobs >>

\* a pick from the module-level generator; the index follows rng_table where
\* a date-seeded call has revealed it and is open otherwise, and is not
\* entered in rng_table, whose keys are the draws of the date-seeded calls
RandomPick(op, category, available) ==
    /\ Len(global_random.drawn) <= MaxDraws
    /\ IF available = << >>
       THEN /\ last' = [NoCall EXCEPT !.op = op, !.category = category]
            /\ UNCHANGED global_random
       ELSE \E c \in Choice(rng_table, global_random, Len(available)) :
              /\ global_random' = c.g
              /\ last' = [NoCall EXCEPT !.op = op,
                                        !.category = category,
                                        !.quote = available[c.index]]
    /\ UNCHANGED << quotes_cache, rng_table, daily_seen, program, ledger, caller, limiter, jobs >>

\* quote_repository.py QuoteRepository.get_random_quote(category), lines
\* 153-164; category "None" is None
GetRandomQuote(category) ==
    /\ program = "ashlagyomibot"
    /\ RandomPick("get_random_quote", category,
                  IF category # "None"
                  THEN get_quotes_by_category(quotes_cache, category)
                  ELSE get_all_quotes(quotes_cache))

\* quote_manager.py QuoteManager.get_random_quote(), lines 264-275: a pick
\* among the quotes of every source in the cache
ManagerGetRandomQuote ==
    /\ program = "src"
    /\ RandomPick("QuoteManager.get_random_quote", "None",
                  ManagerAllQuotes(quotes_cache, 1))

\* the date-seeded pickers and the picks from `random` between their calls
NextSeeded ==
    \/ \E d \in Dates : GetDailyQuotes(d)
    \/ \E d \in Dates : ManagerGetDailyQuotes(d)
    \/ \E c \in Categories \cup { "None" } : GetRandomQuote(c)
    \/ ManagerGetRandomQuote

SpecSeeded == InitSeeded /\ [][NextSeeded]_vars

\* the date-seeded pickers next to the ledger the daily job writes, one
\* record a day
NextSeededLedger ==
    \/ NextSeeded
    \/ \E q \in AllQuotes :
          MarkAsSent(q, Len(_load_history(history_cache, history_file)) + 1, "ok")

SpecSeededLedger == InitSeeded /\ [][NextSeededLedger]_vars

\* C12 (date-seeded determinism): a date-seeded call returns the picks the
\* first call for the same date returned, in the same order, whatever calls
\* and random picks were made in between; the corpus does not change.
C12_SeededDeterminism ==
    /\ last.op = "get_daily_quotes" =>
          last.quotes = daily_seen[<< "get_daily_quotes", last.date >>]
    /\ last.op = "QuoteManager.get_daily_quotes" =>
          last.quotes = daily_seen[<< "QuoteManager.get_daily_quotes", last.date >>]

\* a repeated call for a date that returns two picks, one of a category of
\* several quotes, after the same picker was asked for another date
C12_Witness ==
    /\ last.op \in { "get_daily_quotes", "QuoteManager.get_daily_quotes" }
    /\ last.flag
    /\ Len(last.quotes) = 2
    /\ Len(quotes_cache[last.quotes[1].category]) >= 2
    /\ \E d \in Dates \ { last.date } : << last.op, d >> \in DOMAIN daily_seen

\* C13 (seeded selection over the rotation): a date-seeded pick of a
\* category is never a quote already recorded as sent for that category
\* while the category still holds a quote that was not.
C13_SeededRespectsLedger ==
    last.op \in { "get_daily_quotes", "QuoteManager.get_daily_quotes" } =>
        \A i \in 1..Len(last.quotes) :
            LET category == last.quotes[i].category
                sent_ids == get_sent_ids_by_category(
                                _load_history(history_cache, history_file),
                                category)
            IN  last.quotes[i].id \in sent_ids =>
                    \A j \in 1..Len(quotes_cache[category]) :
                        quotes_cache[category][j].id \in sent_ids

(* ------------------ bot/formatters.py: split_hebrew_text --------------- *)
MaxText == 6         \* splitting: longest text
MaxLen  == 5         \* splitting: largest max_length

\* a str is the sequence of its characters; one letter stands for every
\* character that is neither whitespace nor "."
Chars == { "a", " ", ".", "\n" }
Whitespace == { " ", "\n" }
Texts(chars, n) == UNION { [1..k -> chars] : k \in 0..n }

\* a slice bound as Python reads it: a negative bound counts from the end,
\* and every bound is clipped to 0..len(s)
PyIndex(s, i) ==
    IF i < 0 THEN (IF Len(s) + i < 0 THEN 0 ELSE Len(s) + i)
    ELSE IF i > Len(s) THEN Len(s) ELSE i

\* s[a:b]
Slice(s, a, b) ==
    IF PyIndex(s, a) >= PyIndex(s, b) THEN << >>
    ELSE SubSeq(s, PyIndex(s, a) + 1, PyIndex(s, b))

\* s.rfind(sub, 0, end): the highest index (from 0) where sub occurs inside
\* s[0:end], -1 when there is none
rfind(s, sub, end) ==
    LET stop == PyIndex(s, end)
        hits == { i \in 0..(stop - Len(sub)) :
                    \A k \in 1..Len(sub) : s[i + k] = sub[k] }
    IN  IF hits = {} THEN -1 ELSE CHOOSE i \in hits : \A j \in hits : j <= i

\* s.strip()
strip(s) ==
    LET solid == { i \in 1..Len(s) : s[i] \notin Whitespace }
    IN  IF solid = {} THEN << >>
        ELSE SubSeq(s, CHOOSE i \in solid : \A j \in solid : i <= j,
                       CHOOSE i \in solid : \A j \in solid : j <= i)

\* the split point always max_length, no boundary looked for
SplitAt_HardCut(remaining, max_length) == max_length

\* the split point one past the window
SplitAt_Overshoot(remaining, max_length) == max_length + 1

\* the split point with the word boundary never looked for
SplitAt_NoSpace(remaining, max_length) ==
    LET half      == max_length \div 2
        para_pos  == rfind(remaining, << "\n", "\n" >>, max_length)
        dot_pos   == rfind(remaining, << "." >>, max_length)
        nl_pos    == rfind(remaining, << "\n" >>, max_length)
    IN  IF para_pos > half THEN para_pos + 2
        ELSE IF dot_pos > half THEN dot_pos + 1
        ELSE IF nl_pos > half THEN nl_pos + 1
        ELSE max_length

\* lines 306-321: the split point of one iteration, len(remaining) > max_length
SplitAt(remaining, max_length) ==
    LET half      == max_length \div 2
        para_pos  == rfind(remaining, << "\n", "\n" >>, max_length)
        dot_pos   == rfind(remaining, << "." >>, max_length)
        nl_pos    == rfind(remaining, << "\n" >>, max_length)
        space_pos == rfind(remaining, << " " >>, max_length)
    IN  IF para_pos > half THEN para_pos + 2
        ELSE IF dot_pos > half THEN dot_pos + 1
        ELSE IF nl_pos > half THEN nl_pos + 1
        ELSE IF space_pos > half THEN space_pos + 1
        ELSE max_length

\* line 324: chunk = remaining[:split_at].strip()
CutChunk(remaining, split_at) == strip(Slice(remaining, 0, split_at))

\* the rest taken one character too far
CutRest_SkipOne(remaining, split_at) ==
    strip(Slice(remaining, split_at + 1, Len(remaining)))

\* line 328: remaining = remaining[split_at:].strip()
CutRest(remaining, split_at) == strip(Slice(remaining, split_at, Len(remaining)))

RECURSIVE SplitLoop(_, _, _)
\* the while loop, lines 300-328
SplitLoop(remaining, max_length, chunks) ==
    IF remaining = << >> THEN chunks
    ELSE IF Len(remaining) <= max_length THEN Append(chunks, remaining)
    ELSE LET split_at == SplitAt(remaining, max_length)
             chunk    == CutChunk(remaining, split_at)
         IN  SplitLoop(CutRest(remaining, split_at), max_length,
                       IF chunk # << >> THEN Append(chunks, chunk) ELSE chunks)

\* split_hebrew_text(text, max_length) for max_length >= 1, where the loop
\* ends
split_hebrew_text(text, max_length) ==
    IF Len(text) <= max_length THEN << text >>
    ELSE SplitLoop(text, max_length, << >>)

\* the state of every other component while a formatter runs
Idle ==
    /\ quotes_cache = MakeCorpus([c \in Categories |-> 0])
    /\ history_cache = NotLoaded
    /\ history_file = FileAbsent
    /\ recorded = {}
    /\ failures = 0
    /\ pending = NoQuote
    /\ runs = [c \in Categories |-> << >>]
    /\ channel = EmptyBag
    /\ rng_table = << >>
    /\ global_random = OsSeeded
    /\ daily_seen = << >>
    /\ program = "ashlagyomibot"
    /\ LimiterIdle
    /\ jobs = NoJobs

idle == << quotes_cache, ledger, caller, seeded, limiter, jobs >>

\* the arguments of a call of split_hebrew_text
SplitInput(text, max_length) ==
    [op |-> "input", text |-> text, max_length |-> max_length]

InitSplit ==
    /\ Idle
    /\ \E text \in Texts(Chars, MaxText), max_length \in 1..MaxLen :
          last = SplitInput(text, max_length)

\* lines 294-298: the early return, or the entry of the loop
SplitEnter ==
    /\ last.op = "input"
    /\ last' = [op |-> "split_hebrew_text",
                text |-> last.text, max_length |-> last.max_length,
                pc |-> IF Len(last.text) <= last.max_length
                       THEN "done" ELSE "loop",
                chunks |-> IF Len(last.text) <= last.max_length
                           THEN << last.text >> ELSE << >>,
                remaining |-> last.text,
                before |-> << >>, split_at |-> 0]
    /\ UNCHANGED idle

\* lines 300-328: one iteration of the loop; `before` is the remaining text
\* the iteration started from and split_at the point it cut at (0: no cut)
SplitIterate ==
    /\ last.op = "split_hebrew_text"
    /\ last.pc = "loop"
    /\ LET remaining  == last.remaining
           max_length == last.max_length
           split_at   == SplitAt(remaining, max_length)
           chunk      == CutChunk(remaining, split_at)
           rest       == CutRest(remaining, split_at)
       IN  IF Len(remaining) <= max_length
           THEN last' = [last EXCEPT !.chunks = Append(@, remaining),
                                     !.before = remaining,
                                     !.split_at = 0,
                                     !.pc = "done"]
           ELSE last' = [last EXCEPT !.chunks = IF chunk # << >>
                                                THEN Append(@, chunk) ELSE @,
                                     !.remaining = rest,
                                     !.before = remaining,
                                     !.split_at = split_at,
                                     !.pc = IF rest = << >> THEN "done"
                                            ELSE "loop"]
    /\ UNCHANGED idle

NextSplit == SplitEnter \/ SplitIterate

SpecSplit == InitSplit /\ [][NextSplit]_vars

\* the call has returned
SplitDone == last.op = "split_hebrew_text" /\ last.pc = "done"

\* C14 (chunk length): every chunk split_hebrew_text builds is at most
\* max_length long, the chunks of a hard cut included, and the chunks it
\* returns are those of the loop.
C14_ChunkWithinMax ==
    last.op = "split_hebrew_text" =>
        /\ \A i \in 1..Len(last.chunks) : Len(last.chunks[i]) <= last.max_length
        /\ last.pc = "done" =>
              last.chunks = split_hebrew_text(last.text, last.max_length)

\* a returned chunk of full length that a hard cut made inside a word
C14_Witness ==
    /\ SplitDone
    /\ Len(last.chunks) >= 3
    /\ Len(last.chunks[1]) = last.max_length
    /\ \A i \in 1..(last.max_length + 1) : last.text[i] = "a"

RECURSIVE Decomposes(_, _)
\* text = w0 c1 w1 ... ck wk with every wi whitespace only
Decomposes(text, chunks) ==
    IF chunks = << >> THEN \A i \in 1..Len(text) : text[i] \in Whitespace
    ELSE \E k \in 0..Len(text) :
           /\ \A i \in 1..k : text[i] \in Whitespace
           /\ k + Len(chunks[1]) <= Len(text)
           /\ SubSeq(text, k + 1, k + Len(chunks[1])) = chunks[1]
           /\ Decomposes(SubSeq(text, k + Len(chunks[1]) + 1, Len(text)),
                         Tail(chunks))

\* C15 (round trip): the chunks returned rebuild the text up to whitespace
\* between and around them, and a text no longer than max_length comes back
\* unchanged as the only chunk.
C15_SplitRoundTrip ==
    SplitDone =>
        /\ Decomposes(last.text, last.chunks)
        /\ Len(last.text) <= last.max_length => last.chunks = << last.text >>

\* a text split in two with whitespace dropped at the split and at both ends
C15_Witness ==
    /\ SplitDone
    /\ Len(last.chunks) = 2
    /\ Len(last.text) > Len(last.chunks[1]) + Len(last.chunks[2]) + 2
    /\ last.text[1] \in Whitespace
    /\ last.text[Len(last.text)] \in Whitespace

\* an iteration of the loop has just cut the text `before` at split_at
SplitCut == last.op = "split_hebrew_text" /\ last.split_at > 0

\* the positions (from 0) of the window [0, max_length) past its middle
\* that hold a ".", a newline or a space; a paragraph break starts at one
Delimiters(s, max_length) ==
    { i \in 0..(max_length - 1) :
        2 * i > max_length /\ s[i + 1] \in { ".", "\n", " " } }

\* words of letters with one space between them, each shorter than
\* max_length / 2
ShortWords(s, max_length) ==
    /\ s # << >>
    /\ \A i \in 1..Len(s) : s[i] \in { "a", " " }
    /\ s[1] = "a" /\ s[Len(s)] = "a"
    /\ \A i \in 1..(Len(s) - 1) : ~(s[i] = " " /\ s[i + 1] = " ")
    /\ \A i \in 1..Len(s) : \A j \in i..Len(s) :
          (\A k \in i..j : s[k] = "a") => 2 * (j - i + 1) < max_length

\* C17 as claimed (a cut at max_length only without a delimiter): an
\* iteration cuts at exactly max_length only when the window holds no ".",
\* newline or space past its middle.
C17_CutAtMaxOnlyWithoutDelimiter ==
    (SplitCut /\ last.split_at = last.max_length) =>
        Delimiters(last.before, last.max_length) = {}

\* C17 (a word is split only by the hard cut): when the window holds a ".",
\* newline or space past its middle the cut falls just after one of them
\* (which is at max_length when it is the last character of the window), and
\* only otherwise is the cut the hard cut at max_length; so in a text of
\* words shorter than max_length / 2 with one space between them no cut
\* falls inside a word and every cut has a space next to it.
C17_WordSplitOnlyByHardCut ==
    SplitCut =>
        /\ Delimiters(last.before, last.max_length) # {} =>
              (last.split_at - 1) \in Delimiters(last.before, last.max_length)
        /\ Delimiters(last.before, last.max_length) = {} =>
              last.split_at = last.max_length
        /\ ShortWords(last.text, last.max_length) =>
              /\ ~(last.before[last.split_at] = "a"
                     /\ last.before[last.split_at + 1] = "a")
              /\ \/ last.before[last.split_at] = " "
                 \/ last.before[last.split_at + 1] = " "

\* a text of short words that was cut, and a cut after a space that is not
\* the end of the window
C17_Witness ==
    /\ SplitCut
    /\ ShortWords(last.text, last.max_length)
    /\ Delimiters(last.before, last.max_length) # {}
    /\ last.split_at < last.max_length
    /\ last.before[last.split_at] = " "

MaxParaText == 8     \* paragraph splitting: longest text
MaxParaLen  == 7     \* paragraph splitting: largest max_length

\* texts of letters, newlines and spaces, long enough for a paragraph break
\* past the middle of the window with a space after it
ParaChars == { "a", "\n", " " }

InitPara ==
    /\ Idle
    /\ \E text \in Texts(ParaChars, MaxParaText), max_length \in 1..MaxParaLen :
          last = SplitInput(text, max_length)

SpecPara == InitPara /\ [][NextSplit]_vars

\* the positions (from 0) past the middle of the window at which a
\* paragraph break "\n\n" lying inside the window [0, max_length) starts
ParaBreaks(s, max_length) ==
    { i \in 0..(max_length - 2) :
        2 * i > max_length /\ s[i + 1] = "\n" /\ s[i + 2] = "\n" }

MaxParts == 5        \* handlers: most messages format_maamar returns

Commands == { "today_command", "maamar_command" }

\* the keyboard on every message
ReplyMarkup_Every(i, n) == TRUE

\* lines 165 and 218: reply_markup = keyboard if i == len(messages) - 1 else None
ReplyMarkup(i, n) == i = n - 1

\* no update is being handled
NoUpdate == [op |-> "idle"]

InitHandler ==
    /\ Idle
    /\ last = NoUpdate

\* a handler up to its send loop: the early returns of lines 125-153 and
\* 191-206, each with the reply it sends; k = len(format_maamar(...))
HandlerCall(command) ==
    /\ last.op \in { "idle" } \cup Commands
    /\ last.op \in Commands => last.pc # "send"
    /\ \E has_message, rate_limited, found, dry_run, is_development \in BOOLEAN,
          k \in 0..MaxParts :
          LET reply(text) == << [part |-> 0, text |-> text, reply_markup |-> FALSE] >>
              pc == IF ~has_message THEN "no_message"
                    ELSE IF rate_limited THEN "rate_limited"
                    ELSE IF ~found THEN "none"
                    ELSE IF command = "today_command" /\ dry_run THEN "dry_run"
                    ELSE IF k = 0 THEN "done" ELSE "send"
          IN  last' = [op |-> command, pc |-> pc,
                       k |-> IF pc \in { "send", "done" } THEN k ELSE 0,
                       i |-> 0,
                       is_development |-> is_development /\ pc = "send",
                       sent |-> CASE pc = "rate_limited" -> reply("RATE_LIMIT_MSG")
                                  [] pc = "none"         -> reply("No maamarim available.")
                                  [] pc = "dry_run"      -> reply("[DRY RUN]")
                                  [] OTHER               -> << >>]
    /\ UNCHANGED idle

\* one iteration of the send loop, lines 160-172 and 213-225; a reply_text
\* that raises ends the loop in _log_and_reply_error, lines 51-58
HandlerSend(ok) ==
    /\ last.op \in Commands
    /\ last.pc = "send"
    /\ IF ok
       THEN last' = [last EXCEPT
                !.sent = Append(@, [part |-> last.i + 1, text |-> "message",
                                    reply_markup |-> ReplyMarkup(last.i, last.k)]),
                !.i = @ + 1,
                !.pc = IF last.i + 1 = last.k THEN "done" ELSE "send"]
       ELSE last' = [last EXCEPT
                !.sent = Append(@, [part |-> 0,
                                    text |-> IF last.is_development
                                             THEN "Error in command"
                                             ELSE "Error. Please try again.",
                                    reply_markup |-> FALSE]),
                !.pc = "error"]
    /\ UNCHANGED idle

NextHandler ==
    \/ \E command \in Commands : HandlerCall(command)
    \/ \E ok \in BOOLEAN : HandlerSend(ok)

SpecHandler == InitHandler /\ [][NextHandler]_vars

\* C18 (single action placement): of the messages a handler has sent, the
\* one with the source keyboard is the last part of the maamar and no other;
\* a maamar delivered as k >= 1 messages has its parts sent in order, the
\* keyboard on exactly one of them, the last.
C18_KeyboardOnLastOnly ==
    last.op \in Commands =>
        /\ \A j \in 1..Len(last.sent) :
              last.sent[j].reply_markup <=> (last.k >= 1 /\ last.sent[j].part = last.k)
        /\ (last.pc = "done" /\ last.k >= 1) =>
              /\ Len(last.sent) = last.k
              /\ \A j \in 1..last.k : last.sent[j].part = j
              /\ Cardinality({ j \in 1..last.k : last.sent[j].reply_markup }) = 1
              /\ last.sent[last.k].reply_markup

\* a maamar delivered in three messages or more
C18_Witness ==
    /\ last.op \in Commands
    /\ last.pc = "done"
    /\ last.k >= 3
    /\ Len(last.sent) = last.k

(* ------------------- bot/formatters.py: format_maamar ------------------ *)
\* formatters.py line 33
TELEGRAM_SAFE_LENGTH == 3800

MaxBudget == 3       \* formatting: largest first-chunk budget of a long header
MaxBody   == 12      \* formatting: longest text under a long header

\* characters outside ASCII are written by their code points
Rule(c) == [i \in 1..19 |-> c]
Ellipsis == << " ", ".", ".", "." >>

RECURSIVE Digits(_)
\* str(n) for n >= 0
Digits(n) ==
    LET digit(d) == << "0", "1", "2", "3", "4", "5", "6", "7", "8", "9" >>[d + 1]
    IN  IF n < 10 THEN << digit(n) >>
        ELSE Digits(n \div 10) \o << digit(n % 10) >>

\* SourceCategory.display_name_hebrew, models.py lines 41-45: its length
DisplayNameLen(source) == IF source = "BAAL_HASULAM" THEN 9 ELSE 5

\* len(format_maamar_header(maamar, target_date)), lines 350-381: the
\* lengths of `parts`, joined by newlines; a field is given by its length,
\* 0 for None or ""
HeaderLen(maamar) ==
    LET parts ==
            << 31, 0, 19, 0, 9 + DisplayNameLen(maamar.source), 0,
               7 + maamar.title >>
            \o (IF maamar.subtitle # 0 THEN << 7 + maamar.subtitle >> ELSE << >>)
            \o << 0, 2 + maamar.book
                       + (IF maamar.page # 0 THEN 7 + maamar.page ELSE 0) >>
            \o << 0, 19, 0 >>
    IN  SumSeq(parts) + Len(parts) - 1

\* format_maamar_footer(), line 391
format_maamar_footer ==
    << "\n" >> \o Rule("U+2500") \o << "\n", "\n" >> \o Rule("U+2550")

\* format_maamar_continuation_header(part_num, total_parts), line 405
format_maamar_continuation_header(part_num, total_parts) ==
    << "U+1F4DC", " ", "U+05D7", "U+05DC", "U+05E7", " " >>
        \o Digits(part_num) \o << "/" >> \o Digits(total_parts)
        \o << "\n", "\n" >> \o Rule("U+2500") \o << "\n", "\n" >>

\* a message: the header, kept as its length (0: no header), and the
\* characters after it
Message(header_len, body) == [header_len |-> header_len, body |-> body]
MessageLen(message) == message.header_len + Len(message.body)

\* the first chunk as long as a message
FirstChunkMax_NoHeader(header_len) == TELEGRAM_SAFE_LENGTH - 50

\* line 439
FirstChunkMax(header_len) == TELEGRAM_SAFE_LENGTH - header_len - 50

\* line 440
OtherChunkMax ==
    TELEGRAM_SAFE_LENGTH - Len(format_maamar_continuation_header(99, 99))
        - Len(format_maamar_footer) - 50

\* the part number counted from 0
PartNum_FromZero(i) == i

\* line 452: part_num = i + 1
PartNum(i) == i + 1

\* lines 451-469: the message of text_chunks[i], i from 0
FormatPart(header_len, text_chunks, i) ==
    LET total_parts == Len(text_chunks)
        chunk       == text_chunks[i + 1]
        cont_header == format_maamar_continuation_header(PartNum(i), total_parts)
    IN  IF i = 0
        THEN IF total_parts > 1
             THEN Message(header_len, chunk \o Ellipsis)
             ELSE Message(header_len, chunk \o format_maamar_footer)
        ELSE IF i = total_parts - 1
        THEN Message(0, cont_header \o chunk \o format_maamar_footer)
        ELSE Message(0, cont_header \o chunk \o Ellipsis)

\* lines 445-471: the messages of a text that does not fit, first_split
\* being what line 443 returned
FormatSplit(maamar, first_split) ==
    LET header_len      == HeaderLen(maamar)
        first_chunk_max == FirstChunkMax(header_len)
        text_chunks     == IF Len(first_split) = 1
                              /\ Len(first_split[1]) > first_chunk_max
                           THEN split_hebrew_text(maamar.text, OtherChunkMax)
                           ELSE first_split
    IN  [i \in 1..Len(text_chunks) |->
            FormatPart(header_len, text_chunks, i - 1)]

\* line 428: len(header + text + footer) <= TELEGRAM_SAFE_LENGTH
FitsOneMessage(maamar) ==
    HeaderLen(maamar) + Len(maamar.text) + Len(format_maamar_footer)
        <= TELEGRAM_SAFE_LENGTH

\* format_maamar(maamar, target_date), lines 419-471, for a header that
\* leaves a first chunk of 1 character or more
format_maamar(maamar) ==
    IF FitsOneMessage(maamar)
    THEN << Message(HeaderLen(maamar), maamar.text \o format_maamar_footer) >>
    ELSE FormatSplit(maamar,
             split_hebrew_text(maamar.text, FirstChunkMax(HeaderLen(maamar))))

\* a Maamar: its text, and the lengths of the fields the header shows
\* (models.py lines 246-258: title and book have min_length=1, text has
\* min_length=10, subtitle and page may be None)
Maamar(source, subtitle, text) ==
    [source |-> source, title |-> 1, subtitle |-> subtitle, book |-> 1,
     page |-> 0, text |-> text]

BodyTexts == { text \in Texts({ "a", " " }, MaxBody) : Len(text) >= 10 }

\* texts of whole chunks under the shortest header
LongTexts(source) ==
    { [i \in 1..(k * FirstChunkMax(HeaderLen(Maamar(source, 0, << >>)))) |-> "a"] :
        k \in 2..3 }

InitFormat ==
    /\ Idle
    /\ \E source \in { "BAAL_HASULAM", "RABASH" } :
          \* a long header: the first chunk is 1..MaxBudget characters
          \/ \E subtitle \in 1..TELEGRAM_SAFE_LENGTH :
                /\ FirstChunkMax(HeaderLen(Maamar(source, subtitle, << >>)))
                        \in 1..MaxBudget
                /\ \E text \in BodyTexts :
                      last = [op |-> "input",
                              maamar |-> Maamar(source, subtitle, text)]
          \* the shortest header
          \/ \E text \in BodyTexts \cup LongTexts(source) :
                last = [op |-> "input", maamar |-> Maamar(source, 0, text)]

\* format_maamar(maamar, target_date)
FormatMaamar ==
    /\ last.op = "input"
    /\ last' = [op |-> "format_maamar", maamar |-> last.maamar,
                header_len |-> HeaderLen(last.maamar),
                messages |-> format_maamar(last.maamar)]
    /\ UNCHANGED idle

SpecFormat == InitFormat /\ [][FormatMaamar]_vars

StartsWith(s, prefix) ==
    Len(prefix) <= Len(s) /\ SubSeq(s, 1, Len(prefix)) = prefix
EndsWith(s, suffix) ==
    Len(suffix) <= Len(s)
        /\ SubSeq(s, Len(s) - Len(suffix) + 1, Len(s)) = suffix

\* C19 (part numbering): of n > 1 messages the first starts with the header
\* and message i, 2 <= i <= n, starts with the continuation marker of i/n;
\* the footer ends message n and no other, and every earlier message ends
\* with " ...".
C19_PartNumbering ==
    (last.op = "format_maamar" /\ Len(last.messages) > 1) =>
        LET n == Len(last.messages)
        IN  /\ last.messages[1].header_len = last.header_len
            /\ last.header_len > 0
            /\ \A i \in 2..n :
                  /\ last.messages[i].header_len = 0
                  /\ StartsWith(last.messages[i].body,
                                format_maamar_continuation_header(i, n))
            /\ \A i \in 1..n :
                  EndsWith(last.messages[i].body, format_maamar_footer) <=> i = n
            /\ \A i \in 1..(n - 1) :
                  EndsWith(last.messages[i].body, Ellipsis)

\* a maamar in ten messages or more
C19_Witness ==
    /\ last.op = "format_maamar"
    /\ Len(last.messages) >= 10

\* C20 (no over-length message): with a positive first-chunk budget every
\* message, header or continuation marker and footer or " ..." counted, is
\* at most TELEGRAM_SAFE_LENGTH long, and a maamar whose header, text and
\* footer fit in TELEGRAM_SAFE_LENGTH comes back as that one message.
C20_NoOverLengthMessage ==
    (last.op = "format_maamar" /\ FirstChunkMax(last.header_len) > 0) =>
        /\ \A i \in 1..Len(last.messages) :
              MessageLen(last.messages[i]) <= TELEGRAM_SAFE_LENGTH
        /\ last.header_len + Len(last.maamar.text) + Len(format_maamar_footer)
                <= TELEGRAM_SAFE_LENGTH
             => last.messages = << Message(last.header_len,
                                           last.maamar.text \o format_maamar_footer) >>

\* three messages under the shortest header, the chunks as long as the
\* first-chunk budget allows
C20_Witness ==
    /\ last.op = "format_maamar"
    /\ Len(last.messages) = 3
    /\ last.maamar.subtitle = 0
    /\ MessageLen(last.messages[1]) = TELEGRAM_SAFE_LENGTH - 50 + Len(Ellipsis)
    /\ Len(last.messages[3].body) > Len(last.messages[1].body)

\* ---------------------------------------------------------------------
\* format_maamar step by step, for a header that leaves no first chunk

MaxOver == 2         \* formatting: most characters the header is over budget

InitBudget ==
    /\ Idle
    /\ \E source \in { "BAAL_HASULAM", "RABASH" },
          subtitle \in 1..TELEGRAM_SAFE_LENGTH :
          /\ FirstChunkMax(HeaderLen(Maamar(source, subtitle, << >>)))
                  \in (0 - MaxOver)..0
          /\ \E text \in BodyTexts :
                last = [op |-> "input",
                        maamar |-> Maamar(source, subtitle, text)]

\* lines 419-443 and, inside split_hebrew_text, lines 294-298
FormatEnter ==
    /\ last.op = "input"
    /\ LET maamar     == last.maamar
           max_length == FirstChunkMax(HeaderLen(maamar))
       IN  IF FitsOneMessage(maamar)
           THEN last' = [op |-> "format_maamar", maamar |-> maamar,
                         header_len |-> HeaderLen(maamar),
                         messages |-> format_maamar(maamar)]
           ELSE last' = [op |-> "split_hebrew_text", maamar |-> maamar,
                         text |-> maamar.text, max_length |-> max_length,
                         pc |-> IF Len(maamar.text) <= max_length
                                THEN "done" ELSE "loop",
                         chunks |-> IF Len(maamar.text) <= max_length
                                    THEN << maamar.text >> ELSE << >>,
                         remaining |-> maamar.text,
                         before |-> << >>, split_at |-> 0]
    /\ UNCHANGED idle

\* lines 445-471, once split_hebrew_text has returned
FormatFinish ==
    /\ last.op = "split_hebrew_text"
    /\ last.pc = "done"
    /\ last' = [op |-> "format_maamar", maamar |-> last.maamar,
                header_len |-> HeaderLen(last.maamar),
                messages |-> FormatSplit(last.maamar, last.chunks)]
    /\ UNCHANGED idle

NextBudget == FormatEnter \/ SplitIterate \/ FormatFinish

SpecBudget == InitBudget /\ [][NextBudget]_vars

\* an iteration of the loop that cut nothing off and appended nothing: the
\* next iteration starts from the same state, and so does every later one
SplitStuck ==
    /\ last.op = "split_hebrew_text"
    /\ last.pc = "loop"
    /\ last.before = last.remaining
    /\ CutChunk(last.before, last.split_at) = << >>

\* C21 (budget too small): when the header leaves a first-chunk budget of
\* zero or less and the text does not fit in one message, format_maamar
\* neither stays in the loop of split_hebrew_text for ever nor returns a
\* message longer than TELEGRAM_SAFE_LENGTH.
C21_SmallBudgetFailsFast ==
    /\ ~SplitStuck
    /\ last.op = "format_maamar" =>
          \A i \in 1..Len(last.messages) :
              MessageLen(last.messages[i]) <= TELEGRAM_SAFE_LENGTH

\* C30 (at least one message): for every text of 10 characters or more,
\* whitespace-only texts included, and a first-chunk budget of 1 or more,
\* split_hebrew_text returns a non-empty list with no empty chunk and
\* format_maamar returns at least one message.
C30_AtLeastOneMessage ==
    (last.op = "format_maamar" /\ FirstChunkMax(last.header_len) >= 1) =>
        LET chunks == split_hebrew_text(last.maamar.text,
                                        FirstChunkMax(last.header_len))
        IN  /\ chunks # << >>
            /\ \A i \in 1..Len(chunks) : chunks[i] # << >>
            /\ last.messages # << >>

\* texts of letters, "." and newlines, long enough for a "." and a later
\* newline past the middle of the window with a letter between them
SentenceChars == { "a", ".", "\n" }

InitSentence ==
    /\ Idle
    /\ \E text \in Texts(SentenceChars, MaxParaText),
          max_length \in 1..MaxParaLen :
          last = SplitInput(text, max_length)

SpecSentence == InitSentence /\ [][NextSplit]_vars

\* the positions (from 0) of the window [0, max_length) past its middle
\* that hold a "." or a newline
SentenceEnds(s, max_length) ==
    { i \in 0..(max_length - 1) :
        2 * i > max_length /\ s[i + 1] \in { ".", "\n" } }

\* C25 (sentence boundary): when the remaining text is longer than
\* max_length and no paragraph break qualifies, the iteration cuts just
\* after the last "." or newline past the middle of the window, whichever of
\* the two comes later, and goes on with the text after it.
C25_SentenceBoundary ==
    (/\ SplitCut
     /\ ParaBreaks(last.before, last.max_length) = {}
     /\ SentenceEnds(last.before, last.max_length) # {}) =>
        LET ends  == SentenceEnds(last.before, last.max_length)
            later == CHOOSE i \in ends : \A j \in ends : j <= i
        IN  last.remaining =
                strip(Slice(last.before, later + 1, Len(last.before)))

(* ------------------------- bot/rate_limit.py --------------------------- *)
RATE_LIMIT  == 5     \* requests per window
RATE_WINDOW == 2     \* timedelta(minutes=1), in clock ticks of 30 seconds

MaxNow      == 4     \* rate limiter: last tick of the clock
MaxRequests == 7     \* rate limiter: most calls of is_rate_limited
MaxTracked  == 1     \* rate limiter: users the table holds before the
                     \*   cleanup runs (the 1000 of line 49)

\* the test of line 38 with the start of the window counted in
InWindow_Inclusive(t, window_start) == t >= window_start

\* line 38: t > window_start
InWindow(t, window_start) == t > window_start

\* _rate_limits[user_id] of a defaultdict(list)
Tracked(table, user_id) ==
    IF user_id \in DOMAIN table THEN table[user_id] ELSE << >>

\* lines 49-52: the table after the cleanup
Cleanup(table) ==
    IF Cardinality(DOMAIN table) > MaxTracked
    THEN [uid \in { u \in DOMAIN table : table[u] # << >> } |-> table[uid]]
    ELSE table

\* the clock moves on between two commands
Tick ==
    /\ clock < MaxNow
    /\ clock' = clock + 1
    /\ UNCHANGED << quotes_cache, ledger, caller, seeded, last,
                    rate_limits, accepted, requests, jobs >>

\* is_rate_limited(user_id); `prior` is accepted[user_id] as the call
\* found it
IsRateLimited(user_id) ==
    LET now          == clock
        window_start == now - RATE_WINDOW
        recent       == SelectSeq(Tracked(rate_limits, user_id),
                                  LAMBDA t : InWindow(t, window_start))
        limited      == Len(recent) >= RATE_LIMIT
    IN  /\ requests < MaxRequests
        /\ requests' = requests + 1
        /\ rate_limits' =
              IF limited
              THEN (user_id :> recent) @@ rate_limits
              ELSE Cleanup((user_id :> Append(recent, now)) @@ rate_limits)
        /\ accepted' = IF limited THEN accepted
                       ELSE [accepted EXCEPT ![user_id] = Append(@, now)]
        /\ last' = [op |-> "is_rate_limited", user_id |-> user_id,
                    now |-> now, flag |-> limited,
                    prior |-> accepted[user_id]]
        /\ UNCHANGED << quotes_cache, ledger, caller, seeded, clock, jobs >>

InitLimiter ==
    /\ Idle
    /\ last = NoUpdate

NextLimiter ==
    \/ Tick
    \/ \E user_id \in Users : IsRateLimited(user_id)

SpecLimiter == InitLimiter /\ [][NextLimiter]_vars

\* the requests of times that lie in the window (t - RATE_WINDOW, t]
CountIn(times, t) ==
    Cardinality({ i \in 1..Len(times) :
                    times[i] > t - RATE_WINDOW /\ times[i] <= t })

\* C22 (sliding window): is_rate_limited(u) at time t returns True iff u has
\* RATE_LIMIT accepted requests in (t - RATE_WINDOW, t]; the call is
\* recorded iff it is accepted, and only the requests of u inside the window
\* stay in its list; no user has more than RATE_LIMIT accepted requests in
\* any window.
C22_SlidingWindow ==
    /\ last.op = "is_rate_limited" =>
          LET inside == CountIn(last.prior, last.now)
              list   == rate_limits[last.user_id]
          IN  /\ last.flag <=> inside >= RATE_LIMIT
              /\ last.flag => list = SubSeq(last.prior,
                                            Len(last.prior) - inside + 1,
                                            Len(last.prior))
              /\ ~last.flag => list = Append(SubSeq(last.prior,
                                                Len(last.prior) - inside + 1,
                                                Len(last.prior)), last.now)
              /\ accepted[last.user_id] =
                    IF last.flag THEN last.prior
                    ELSE Append(last.prior, last.now)
    /\ \A u \in Users : \A t \in 0..MaxNow :
          CountIn(accepted[u], t) <= RATE_LIMIT

\* a user who was turned away is accepted again once the window has passed
C22_Witness ==
    /\ last.op = "is_rate_limited"
    /\ ~last.flag
    /\ Len(last.prior) >= RATE_LIMIT
    /\ requests > Len(accepted[111]) + Len(accepted[222])

\* C26 (no leak of old users): after an accepted request that leaves more
\* users tracked than the cleanup allows, every user still in the table has
\* a request inside the current window.
C26_CleanupDropsExpiredUsers ==
    (/\ last.op = "is_rate_limited"
     /\ ~last.flag
     /\ Cardinality(DOMAIN rate_limits) > MaxTracked) =>
        \A u \in DOMAIN rate_limits :
            \E i \in 1..Len(rate_limits[u]) :
                InWindow(rate_limits[u][i], last.now - RATE_WINDOW)

\* the messages the channel has received for a date
SentOn(target_date) ==
    BagCardinality([m \in { x \in BagToSet(channel) : x.date = target_date }
                       |-> channel[m]])

\* the records the history file holds for a date
RecordsOn(target_date) ==
    LET history == LoadFile(history_file)
    IN  Cardinality({ i \in 1..Len(history) :
                        history[i].sent_date = target_date })

\* a broadcast_daily_quote step that finds a record of its date in the file
\* returns True, picks nothing, sends nothing and writes nothing
SkipsDuplicate(needs_channel) ==
    (/\ last'.op = "broadcast_daily_quote"
     /\ needs_channel => last'.has_channel
     /\ RecordsOn(last'.date) >= 1)
    => /\ last'.flag = TRUE
       /\ last'.quote = NoQuote
       /\ ~last'.sent
       /\ channel' = channel
       /\ history_file' = history_file

MaxBundle == 2       \* deliveries: most quotes of a bundle

\* the quotes recorded whether or not their message was sent
Marked_Unsent(sendable, writes) == writes

\* the quotes of a bundle that get recorded, when the sends of the first
\* `sendable` quotes return and the first `writes` writes of the history
\* file succeed: a quote is marked after its own send (broadcaster.py 184-
\* 193) or after every send (scheduler.py 73-92)
Marked(sendable, writes) == Min(sendable, writes)

\* one message of a delivery; the header and the footer carry no quote
Delivered(quote, target_date) == [quote |-> quote, date |-> target_date]

\* broadcast_daily_bundle (interleaved: each quote is sent, then marked)
\* and send_daily_quotes (header, quotes, footer, then the marks).  Drawn
\* where the code reads them:
\*   has_channel: settings.telegram_channel_id is set (broadcaster only)
\*   dry_run: dry_run or settings.dry_run
\*   sends:   the calls of bot.send_message that return before one raises
\*   writes:  the writes of the history file that succeed before one fails
\*   io:      what the failing write does
DeliverBundle(op, target_date, interleaved) ==
    LET history == LoadFile(history_file)     \* a fresh QuoteRepository()
        call    == [NoCall EXCEPT !.op = op, !.date = target_date]
        quiet   == UNCHANGED << history_file, recorded, failures, channel >>
    IN  /\ UNCHANGED << quotes_cache, seeded, limiter, jobs, history_cache, pending, runs >>
        /\ channel = EmptyBag         \* the first delivery to send anything
        /\ \E has_channel \in (IF interleaved THEN BOOLEAN ELSE { TRUE }),
              quotes \in BundleFrom(quotes_cache, history, 1) :
           IF ~has_channel
           THEN /\ last' = [call EXCEPT !.has_channel = FALSE]
                /\ quiet
           ELSE IF ~DailyBundleValid(quotes)
           THEN /\ last' = [call EXCEPT !.exc = "ValidationError"]
                /\ quiet
           ELSE \E dry_run \in BOOLEAN :
           IF dry_run
           THEN /\ last' = [call EXCEPT !.quotes = quotes, !.flag = TRUE,
                                        !.dry_run = TRUE]
                /\ quiet
           ELSE
           LET n     == Len(quotes)
               total == IF interleaved THEN n + 1 ELSE n + 2
           IN  \E sends \in 0..total, writes \in 0..n,
                  io \in IoOutcomes \ { "ok" } :
               LET sendable == IF sends = 0 THEN 0 ELSE Min(sends - 1, n)
                   reached  == IF interleaved THEN sendable
                               ELSE IF sends = total THEN n ELSE 0
                   marked   == Marked(reached, writes)
                   write_failed == writes < reached
                   sent     == IF interleaved /\ write_failed
                               THEN writes + 1 ELSE sendable
                   send_failed == ~write_failed /\ sends < total
                   extras   == (IF sends >= 1 THEN 1 ELSE 0)
                               + (IF ~interleaved /\ sends = total THEN 1 ELSE 0)
                   cache    == Loaded(history \o
                                  [i \in 1..marked |->
                                      from_quote(quotes[i], target_date)])
               IN  /\ write_failed => failures < MaxFail
                   /\ channel' = channel
                         (+) [m \in { Delivered(quotes[i], target_date) :
                                        i \in 1..sent } |-> 1]
                         (+) [m \in { Delivered(NoQuote, target_date) :
                                        i \in 1..extras } |-> extras]
                   /\ history_file' =
                         IF write_failed /\ io = "dump_fails" THEN FileCorrupt
                         ELSE IF marked = 0 THEN history_file
                         ELSE _save_history(cache, history_file, "ok")
                   /\ recorded' = recorded \cup
                         { << quotes[i].id, quotes[i].category, target_date >> :
                             i \in 1..marked }
                   /\ failures' = IF write_failed THEN failures + 1
                                                  ELSE failures
                   /\ last' = [call EXCEPT
                                 !.quotes = quotes,
                                 !.sent = sends >= 1,
                                 !.io = IF write_failed THEN io ELSE "ok",
                                 !.exc = IF write_failed THEN "OSError"
                                         ELSE IF send_failed THEN "TelegramError"
                                         ELSE "none",
                                 !.flag = ~write_failed /\ ~send_failed]

\* broadcast_daily_bundle(target_date, dry_run=...), with a channel
BroadcastDailyBundle(target_date) ==
    DeliverBundle("broadcast_daily_bundle", target_date, TRUE)

\* send_daily_quotes(bot, chat_id), on the day target_date
SendDailyQuotes(target_date) ==
    DeliverBundle("send_daily_quotes", target_date, FALSE)

\* corpora of one quote in each of the first k categories
InitDelivery ==
    /\ \E k \in 0..MaxBundle :
          quotes_cache = MakeCorpus([c \in Categories |->
                            IF \E i \in 1..k : QuoteCategory[i] = c
                            THEN 1 ELSE 0])
    /\ history_cache = NotLoaded
    /\ history_file = FileAbsent
    /\ last = NoCall
    /\ recorded = {}
    /\ failures = 0
    /\ pending = NoQuote
    /\ runs = [c \in Categories |-> << >>]
    /\ channel = EmptyBag
    /\ rng_table = << >>
    /\ global_random = OsSeeded
    /\ daily_seen = << >>
    /\ program = "ashlagyomibot"
    /\ LimiterIdle
    /\ jobs = NoJobs

NextDelivery ==
    \/ \E d \in Dates : BroadcastDailyQuote(d)
    \/ \E d \in Dates : BroadcastDailyBundle(d)
    \/ \E d \in Dates : SendDailyQuotes(d)

SpecDelivery == InitDelivery /\ [][NextDelivery]_vars

\* the records a step adds to the history file
NewRecords ==
    Range(LoadFile(history_file')) \ Range(LoadFile(history_file))

\* the quotes of the messages a step sends, as the records they would get
NewlySent ==
    { from_quote(m.quote, m.date) :
        m \in { x \in BagToSet(channel') :
                  /\ x.quote # NoQuote
                  /\ CopiesIn(x, channel') > CopiesIn(x, channel) } }

\* C24 (record after confirmed delivery): a delivery step adds a record to
\* the history file only for a quote whose message it has sent; a dry run
\* sends and records nothing; a step in which a send raised returns False.
C24_RecordAfterDelivery ==
    [][ last'.op \in { "broadcast_daily_quote", "broadcast_daily_bundle",
                       "send_daily_quotes" } =>
          /\ NewRecords \subseteq NewlySent
          /\ last'.dry_run =>
                channel' = channel /\ history_file' = history_file
          /\ last'.exc = "TelegramError" => ~last'.flag ]_vars

\* a bundle of two quotes whose second send raised: the first quote is
\* recorded, the second is not
C24_Witness ==
    /\ last.op = "broadcast_daily_bundle"
    /\ last.exc = "TelegramError"
    /\ ~last.flag
    /\ Len(last.quotes) = 2
    /\ from_quote(last.quotes[1], last.date) \in Range(LoadFile(history_file))
    /\ from_quote(last.quotes[2], last.date) \notin Range(LoadFile(history_file))
    /\ CopiesIn(Delivered(last.quotes[1], last.date), channel) = 1

\* the answers of the queries of a repository: get_sent_ids_by_category
\* for every category and was_broadcast_today for every date
Answers(cache, f) ==
    LET history == _load_history(cache, f)
    IN  << [c \in Categories |-> get_sent_ids_by_category(history, c)],
           [d \in Dates |-> was_broadcast_today(history, d)] >>

\* C28 (a failed record changes nothing): when the write of the history
\* file fails in mark_as_sent, the repository answers
\* get_sent_ids_by_category and was_broadcast_today after the call as it
\* did before it.
C28_FailedRecordLeavesLedger ==
    [][ (last'.op = "mark_as_sent" /\ last'.exc # "none") =>
          Answers(history_cache', history_file')
              = Answers(history_cache, history_file) ]_vars

(* ------------- a history file written by an earlier version ----------- *)
\* the entries such a file can hold: records of quotes of the two Ashlag
\* categories, and a record whose category is no longer a member of
\* QuoteCategory, which SentRecord.model_validate rejects
LegacyEntries ==
    { model_dump(from_quote(Quote(1, c), d)) :
        c \in { "BAAL_HASULAM", "RABASH" }, d \in Dates }
    \cup { [quote_id |-> 1, sent_date |-> IsoFormat(1),
            category |-> "breslov"] }

InitLegacy ==
    /\ \E sz \in CorpusSizes(MaxStored, MaxStored) : quotes_cache = MakeCorpus(sz)
    /\ history_cache = NotLoaded
    /\ \E n \in 1..MaxHist : \E sent \in [1..n -> LegacyEntries] :
          history_file = FileJson(sent)
    /\ last = NoCall
    /\ recorded = {}
    /\ failures = 0
    /\ pending = NoQuote
    /\ runs = [c \in Categories |-> << >>]
    /\ channel = EmptyBag
    /\ rng_table = << >>
    /\ global_random = OsSeeded
    /\ daily_seen = << >>
    /\ program = "ashlagyomibot"
    /\ LimiterIdle
    /\ jobs = NoJobs

SpecLegacy == InitLegacy /\ [][Next]_vars

\* the entries of the history file that SentRecord.model_validate accepts
ValidEntries(f) ==
    IF f.state # "json" THEN {}
    ELSE { f.sent[i] : i \in { k \in 1..Len(f.sent) : IsValidJson(f.sent[k]) } }

\* C29 (the persisted ledger never shrinks): every valid record that the
\* history file holds before a mark_as_sent call is in the file after it,
\* also when the file holds an entry that fails validation at load time.
C29_MarkNeverShrinksFile ==
    [][ last'.op = "mark_as_sent" =>
          ValidEntries(history_file) \subseteq ValidEntries(history_file') ]_vars

(* ------------- two scheduled runs of broadcast_daily_quote ------------ *)
\* the two cron runs of a day ("dual cron DST handling", broadcaster.py 56),
\* each a process of its own with its own QuoteRepository
Runs == { 1, 2 }

MaxPool == 2        \* overlap: most quotes in the whole corpus

\* a run at line 53, before QuoteRepository() is built
JobStart(target_date) ==
    [pc |-> "start", date |-> target_date, history |-> << >>,
     quote |-> NoQuote, flag |-> FALSE]

\* random.seed(day_of_year), line 75
DaySeed(target_date) == << "tm_yday", target_date, 0 >>

\* the file the runs find: absent, or holding the record of an earlier day
InitOverlap ==
    /\ \E sz \in CorpusSizes(MaxPool, MaxPool) : quotes_cache = MakeCorpus(sz)
    /\ history_cache = NotLoaded
    /\ last = NoCall
    /\ recorded = {}
    /\ failures = 0
    /\ pending = NoQuote
    /\ runs = [c \in Categories |-> << >>]
    /\ channel = EmptyBag
    /\ rng_table = << >>
    /\ global_random = OsSeeded
    /\ daily_seen = << >>
    /\ program = "ashlagyomibot"
    /\ LimiterIdle
    /\ \E d \in Dates :
         /\ jobs = [r \in Runs |-> JobStart(d)]
         /\ \/ history_file = FileAbsent
            \/ \E quote \in AllQuotes : \E earlier \in 1..(d - 1) :
                 history_file = FileJson(<< model_dump(from_quote(quote, earlier)) >>)

\* what a step of a run leaves alone
JobFrame ==
    UNCHANGED << quotes_cache, global_random, daily_seen, program, limiter,
                 history_cache, failures, pending, runs, last >>

\* lines 54-86: the repository is built and reads the file; the idempotency
\* check; the two random.choice calls after random.seed(day_of_year), which
\* repeat in every process for a date and equal list lengths
JobCheck(r) ==
    LET job        == jobs[r]
        history    == LoadFile(history_file)
        rng        == Seeded(DaySeed(job.date))
    IN  /\ job.pc = "start"
        /\ JobFrame
        /\ UNCHANGED << history_file, channel, recorded >>
        /\ IF was_broadcast_today(history, job.date)
           THEN /\ jobs' = [jobs EXCEPT ![r] = [job EXCEPT !.pc = "done",
                                                           !.history = history,
                                                           !.flag = TRUE]]
                /\ UNCHANGED rng_table
           ELSE \E c \in Choice(rng_table, rng, Len(weighted_categories)) :
                LET category   == weighted_categories[c.index]
                    all_quotes == get_all_by_category(quotes_cache, category)
                    available  == AvailableQuotes(all_quotes,
                                     ExSet(get_sent_ids_by_category(history, category)))
                IN  IF all_quotes = << >>
                    THEN /\ jobs' = [jobs EXCEPT ![r] =
                                        [job EXCEPT !.pc = "done",
                                                    !.history = history]]
                         /\ rng_table' = c.table
                    ELSE \E q \in Choice(c.table, c.g, Len(available)) :
                         /\ jobs' = [jobs EXCEPT ![r] =
                                        [job EXCEPT !.pc = "picked",
                                                    !.history = history,
                                                    !.quote = available[q.index]]]
                         /\ rng_table' = q.table

\* lines 100-108: await bot.send_message(...), which returns or raises
JobSend(r) ==
    LET job == jobs[r]
    IN  /\ job.pc = "picked"
        /\ JobFrame
        /\ UNCHANGED << history_file, recorded, rng_table >>
        /\ \E send_ok \in BOOLEAN :
           IF send_ok
           THEN /\ channel' = channel (+) SetToBag({ Delivered(job.quote, job.date) })
                /\ jobs' = [jobs EXCEPT ![r] = [job EXCEPT !.pc = "sent"]]
           ELSE /\ UNCHANGED channel
                /\ jobs' = [jobs EXCEPT ![r] = [job EXCEPT !.pc = "done"]]

\* line 111, mark_as_sent up to the open of _save_history (repository.py
\* 234-238, 161): the record joins the list the run loaded at its check, and
\* open(..., "w") leaves an empty file
JobOpen(r) ==
    LET job == jobs[r]
    IN  /\ job.pc = "sent"
        /\ JobFrame
        /\ UNCHANGED << channel, recorded, rng_table >>
        /\ history_file' = FileCorrupt
        /\ jobs' = [jobs EXCEPT ![r] =
                       [job EXCEPT !.pc = "opened",
                                   !.history = mark_as_sent(job.history, job.quote,
                                                            job.date)]]

\* repository.py 161-163: json.dump writes the run's list and the file closes
JobDump(r) ==
    LET job == jobs[r]
    IN  /\ job.pc = "opened"
        /\ JobFrame
        /\ UNCHANGED << channel, rng_table >>
        /\ history_file' = _save_history(Loaded(job.history), history_file, "ok")
        /\ recorded' = recorded \cup
                          { << job.quote.id, job.quote.category, job.date >> }
        /\ jobs' = [jobs EXCEPT ![r] = [job EXCEPT !.pc = "done", !.flag = TRUE]]

NextOverlap ==
    \E r \in Runs : JobCheck(r) \/ JobSend(r) \/ JobOpen(r) \/ JobDump(r)

SpecOverlap == InitOverlap /\ [][NextOverlap]_vars

\* both runs have returned
RunsDone == \A r \in Runs : jobs[r].pc = "done"

\* C27 (mutual exclusion of overlapping runs): however two runs of
\* broadcast_daily_quote for one date interleave, at most one message is
\* sent for the date, and once both have returned every record a run has
\* written is in the history file.
C27_OverlappingRunsExcluded ==
    /\ \A d \in Dates : SentOn(d) <= 1
    /\ RunsDone =>
          \A w \in recorded :
             from_quote(Quote(w[1], w[2]), w[3]) \in Range(LoadFile(history_file))

====
